---- MODULE Spec2Model ----
(***************************************************************************)
(* Model of app.py: the invoice ledger kept in one Google Sheet            *)
(* (worksheet "工作表1") and the accounts kept in worksheet "Users".        *)
(*                                                                         *)
(* Column names are written in ASCII:                                      *)
(*   date = 日期, name = 品項, quantity = 數量, category = 類別,            *)
(*   amount = 金額, owner = 使用者.                                         *)
(*                                                                         *)
(* A cell is a tagged value, so that a number, a text, a missing value and *)
(* a parsed timestamp stay distinguishable and comparable:                 *)
(*   Num(n)  a whole number          Frac(n) a float n + 0.5 (n >= 0)      *)
(*   Str(s)  a text                  NaN     NaN / None / NaT              *)
(*   Date(n) a parsed timestamp, n = yyyymmdd                              *)
(* The ledger is [header, rows]: row 1 of the worksheet and the rows below  *)
(* it, cells held as get_all_records() returns them: a numeric cell is Num, *)
(* every other cell is Str (a blank cell is Str("")).                      *)
(* The Users worksheet is a sequence of rows of texts, row 1 included,     *)
(* because find() and delete_rows() address it by row number.              *)
(*                                                                         *)
(* users, ledger          the two worksheets                               *)
(* cacheLoad, cacheUsers  the st.cache_data entries of load_data and       *)
(*                        get_all_users                                    *)
(* loaded, reloaded       what the last dashboard render computed          *)
(* last                   the operation that made the current state       *)
(* session_state, screen  st.session_state of the browser session that     *)
(*                        SpecSession follows, and what its last script    *)
(*                        run rendered                                     *)
(* run                    the handlers in flight in SpecConc, one for each *)
(*                        of two sessions, each at a store call            *)
(* The operations on the store (AddUser .. Expire) say nothing about the   *)
(* followed session and the handlers in flight; a specification that does  *)
(* not follow them joins Idle to each step.                                *)
(***************************************************************************)
EXTENDS Integers, Sequences, FiniteSets, TLC

VARIABLES users, ledger, cacheLoad, cacheUsers, loaded, reloaded, last,
          session_state, screen, run

vars == <<users, ledger, cacheLoad, cacheUsers, loaded, reloaded, last,
          session_state, screen, run>>

----------------------------------------------------------------------------
(* Values *)

Num(n) == [k |-> "num", n |-> n, s |-> ""]
Frac(n) == [k |-> "frac", n |-> n, s |-> ""]
Str(s) == [k |-> "str", n |-> 0, s |-> s]
Date(n) == [k |-> "date", n |-> n, s |-> ""]
NaN == [k |-> "nan", n |-> 0, s |-> ""]

\* an absent value is the empty sequence, a present one the sequence of it
None == <<>>
Some(v) == <<v>>

IsNull(v) == v.k = "nan"

SeqsUpTo(S, n) == UNION {[1..m -> S] : m \in 0..n}

Range(s) == {s[i] : i \in 1..Len(s)}

----------------------------------------------------------------------------
(* Program constants *)

ADMIN_USERNAME == "jerry"

FullHeader == <<"date", "name", "quantity", "category", "amount", "owner">>
LegacyHeader == <<"date", "name", "quantity", "category", "amount">>
required_cols == <<"date", "name", "quantity", "amount", "owner">>

UsersHeader == <<"username", "hashed_password", "avatar_base64">>

\* pd.to_datetime on the texts the model uses; any other text does not parse
DateTexts == [t \in {"2024-03-01", "2024-03-15", "2024-04-02"} |->
                 CASE t = "2024-03-01" -> 20240301
                   [] t = "2024-03-15" -> 20240315
                   [] t = "2024-04-02" -> 20240402]

----------------------------------------------------------------------------
(* DataFrame: cols is the header, rows keep their pandas index *)

ColIdx(cols, c) ==
    IF \E i \in 1..Len(cols) : cols[i] = c
    THEN CHOOSE i \in 1..Len(cols) : cols[i] = c /\ \A j \in (i + 1)..Len(cols) : cols[j] # c
    ELSE 0

HasCol(cols, c) == ColIdx(cols, c) # 0

Cell(df, r, c) == r.c[ColIdx(df.cols, c)]

\* worksheet.get_all_records(): row 1 gives the keys, every later row is cut
\* or padded with blanks to the width of the header
get_all_records(sheet) ==
    [i \in 1..Len(sheet.rows) |->
        [j \in 1..Len(sheet.header) |->
            IF j <= Len(sheet.rows[i]) THEN sheet.rows[i][j] ELSE Str("")]]

DataFrame(cols, recs) ==
    [cols |-> cols, rows |-> [i \in 1..Len(recs) |-> [idx |-> i, c |-> recs[i]]]]

EmptyFrame == [cols |-> <<>>, rows |-> <<>>]

\* pd.to_numeric(errors='coerce')
to_numeric(v) == IF v.k \in {"num", "frac"} THEN v ELSE NaN

\* a parse that accepts texts only: what is already a timestamp becomes NaT
to_datetime_text_only(v) ==
    IF v.k = "str" /\ v.s \in DOMAIN DateTexts THEN Date(DateTexts[v.s]) ELSE NaN

\* pd.to_datetime(errors='coerce'): a timestamp stays, a text parses or
\* becomes NaT, a number counts nanoseconds from 1970-01-01
to_datetime(v) ==
    CASE v.k = "date" -> v
      [] v.k = "str" -> IF v.s \in DOMAIN DateTexts THEN Date(DateTexts[v.s]) ELSE NaN
      [] v.k \in {"num", "frac"} -> Date(19700101)
      [] OTHER -> NaN

\* app.py 320-322: the amount and quantity columns through to_numeric, the
\* date column through to_datetime
CoerceCell(col, v) ==
    CASE col \in {"amount", "quantity"} -> to_numeric(v)
      [] col = "date" -> to_datetime(v)
      [] OTHER -> v

Coerce(df) ==
    [df EXCEPT !.rows = [i \in 1..Len(df.rows) |->
        [df.rows[i] EXCEPT !.c = [j \in 1..Len(df.cols) |->
            CoerceCell(df.cols[j], df.rows[i].c[j])]]]]

\* df.dropna(subset=required_cols)
dropna(df, subset) ==
    LET Keep(r) == \A i \in 1..Len(subset) : ~IsNull(Cell(df, r, subset[i]))
    IN [df EXCEPT !.rows = SelectSeq(df.rows, Keep)]

Key(df, r, subset) == [i \in 1..Len(subset) |-> Cell(df, r, subset[i])]

\* keep='last': a row stays when no later row has its key
KeepLast(df, subset, i, seen) ==
    LET Last(r) == \A j \in 1..Len(df.rows) :
                      (df.rows[j].idx > r.idx) => Key(df, df.rows[j], subset) # Key(df, r, subset)
    IN SelectSeq(df.rows, Last)

RECURSIVE KeepFirst(_, _, _, _)
\* one pass over the rows in order, remembering the keys already met
KeepFirst(df, subset, i, seen) ==
    IF i > Len(df.rows) THEN <<>>
    ELSE LET key == Key(df, df.rows[i], subset) IN
         IF key \in seen THEN KeepFirst(df, subset, i + 1, seen)
         ELSE <<df.rows[i]>> \o KeepFirst(df, subset, i + 1, seen \cup {key})

\* df.drop_duplicates(subset=required_cols, keep='first')
drop_duplicates(df, subset) ==
    [df EXCEPT !.rows = KeepFirst(df, subset, 1, {})]

\* app.py 319-326 applied to a frame that has the required columns
Dedup(df) == drop_duplicates(dropna(Coerce(df), required_cols), required_cols)

\* load_data() on an uncached call: (frame, number of rows removed)
load_data(sheet) ==
    LET data == get_all_records(sheet) IN
    IF data = <<>> THEN [df |-> EmptyFrame, removed |-> 0]
    ELSE LET df == DataFrame(sheet.header, data) IN
         IF \E i \in 1..Len(required_cols) : ~HasCol(df.cols, required_cols[i])
         THEN [df |-> EmptyFrame, removed |-> 0]
         ELSE LET out == Dedup(df) IN
              [df |-> out, removed |-> Len(df.rows) - Len(out.rows)]

----------------------------------------------------------------------------
(* The Users worksheet *)

\* str.lower() on the usernames the model uses
Lower(s) ==
    CASE s = "Bob" -> "bob"
      [] s = "Jerry" -> "jerry"
      [] s = "None" -> "none"
      [] OTHER -> s

\* hash_password: one digest per password
hash_password(p) ==
    CASE p = "p1" -> "sha256-p1"
      [] p = "p2" -> "sha256-p2"
      [] OTHER -> "sha256-other"

RECURSIVE TrimRight(_)
TrimRight(row) ==
    IF row # <<>> /\ row[Len(row)] = "" THEN TrimRight(SubSeq(row, 1, Len(row) - 1))
    ELSE row

\* worksheet.row_values(1): row 1 without its trailing blank cells
row_values1(ws) == IF ws = <<>> THEN <<>> ELSE TrimRight(ws[1])

\* worksheet.update_cell(r, c, v); r is at most one row below the last row
update_cell(ws, r, c, v) ==
    LET old == IF r <= Len(ws) THEN ws[r] ELSE <<>>
        w == IF c > Len(old) THEN c ELSE Len(old)
        new == [j \in 1..w |-> IF j = c THEN v ELSE IF j <= Len(old) THEN old[j] ELSE ""]
    IN [i \in 1..(IF r > Len(ws) THEN r ELSE Len(ws)) |-> IF i = r THEN new ELSE ws[i]]

\* get_users_worksheet on an existing "Users" worksheet: adds the avatar
\* header when row 1 does not hold it
get_users_worksheet(ws) ==
    LET header == row_values1(ws) IN
    IF "avatar_base64" \in Range(header) THEN ws
    ELSE update_cell(ws, 1, Len(header) + 1, "avatar_base64")

\* user.get(key) of the i-th record of users_ws.get_all_records(); a key that
\* row 1 does not hold gives None, written "None"
UserGet(ws, i, key) ==
    LET c == ColIdx(ws[1], key) IN
    IF c = 0 THEN "None"
    ELSE IF c <= Len(ws[i + 1]) THEN ws[i + 1][c] ELSE ""

UserCount(ws) == IF Len(ws) <= 1 THEN 0 ELSE Len(ws) - 1

\* gspread's numericise on the texts the model uses: int(value), else
\* float(value), else the text itself
numericise(s) ==
    CASE s = "007" -> Num(7)
      [] s = "7" -> Num(7)
      [] OTHER -> Str(s)

\* str(value)
str(v) == IF v.k = "num" THEN ToString(v.n) ELSE v.s

\* users_ws.get_all_records() as the records the code reads: the username as
\* numericise leaves it, the two other fields as texts
UserRecords(ws) ==
    [i \in 1..UserCount(ws) |->
        [username |-> numericise(UserGet(ws, i, "username")),
         hashed_password |-> UserGet(ws, i, "hashed_password"),
         avatar_base64 |-> UserGet(ws, i, "avatar_base64")]]

\* users_ws.find(query): the first cell of the whole worksheet, row by row,
\* whose value is the query; 0 when there is none (CellNotFound)
find(ws, query) ==
    IF \E r \in 1..Len(ws) : query \in Range(ws[r])
    THEN CHOOSE r \in 1..Len(ws) :
            /\ query \in Range(ws[r])
            /\ \A q \in 1..(r - 1) : query \notin Range(ws[q])
    ELSE 0

\* users_ws.delete_rows(r)
delete_rows(ws, r) == SubSeq(ws, 1, r - 1) \o SubSeq(ws, r + 1, Len(ws))

\* add_user(username, password, avatar_file); f names the store call that
\* raises, "none" when every call succeeds
add_user(ws, username, password, avatar, f) ==
    IF f = "connect" THEN [users |-> ws, ok |-> FALSE, out |-> "NoSheet"]
    ELSE LET ws1 == get_users_worksheet(ws)
             recs == UserRecords(ws1)
         IN
         IF Lower(username) = Lower(ADMIN_USERNAME)
         THEN [users |-> ws1, ok |-> FALSE, out |-> "Reserved"]
         ELSE IF \E i \in 1..Len(recs) : Lower(str(recs[i].username)) = Lower(username)
         THEN [users |-> ws1, ok |-> FALSE, out |-> "Taken"]
         ELSE [users |-> Append(ws1, <<username, hash_password(password), avatar>>),
               ok |-> TRUE, out |-> "Registered"]

\* update_user(username, new_password, new_avatar_file); "" stands for a
\* password or an avatar that is not given
update_user(ws, username, new_password, new_avatar, f) ==
    IF f = "connect" THEN [users |-> ws, ok |-> FALSE, out |-> "NoSheet"]
    ELSE LET ws1 == get_users_worksheet(ws)
             r == find(ws1, username)
         IN
         IF r = 0 THEN [users |-> ws1, ok |-> FALSE, out |-> "NotFound"]
         ELSE LET ws2 == IF new_avatar # "" THEN update_cell(ws1, r, 3, new_avatar) ELSE ws1
                  ws3 == IF new_password # ""
                         THEN update_cell(ws2, r, 2, hash_password(new_password))
                         ELSE ws2
              IN [users |-> ws3, ok |-> TRUE, out |-> "Updated"]

EmptySheet == [header |-> <<>>, rows |-> <<>>]

\* the worksheet keeps its cells
clear_nothing(led) == led

\* worksheet.clear()
clear(led) == EmptySheet

\* the texts of a row written over row 1 from column A on: the cells to the
\* right of the written ones stay
OverTexts(old, new) ==
    [j \in 1..(IF Len(new) > Len(old) THEN Len(new) ELSE Len(old)) |->
        IF j <= Len(new) THEN new[j] ELSE old[j]]

\* one row of values written over another from column A on: a None is
\* skipped, and the cells to the right of the written ones stay
Over(old, new) ==
    [j \in 1..(IF Len(new) > Len(old) THEN Len(new) ELSE Len(old)) |->
        IF j <= Len(new) /\ ~IsNull(new[j]) THEN new[j]
        ELSE IF j <= Len(old) THEN old[j] ELSE Str("")]

\* worksheet.update([header] + rows, 'A1'): the rows 1 .. 1 + Len(rows) of the
\* worksheet are written over, the rows below them stay
update(led, header, rows) ==
    [header |-> OverTexts(led.header, header),
     rows |-> [i \in 1..(IF Len(rows) > Len(led.rows) THEN Len(rows) ELSE Len(led.rows)) |->
                 IF i <= Len(rows)
                 THEN Over(IF i <= Len(led.rows) THEN led.rows[i] ELSE <<>>, rows[i])
                 ELSE led.rows[i]]]

\* the text a cell shows
CellText(v) ==
    CASE v.k = "str" -> v.s
      [] v.k = "num" -> ToString(v.n)
      [] v.k = "frac" -> ToString(v.n) \o ".5"
      [] OTHER -> ""

\* value_input_option='USER_ENTERED' (294) on the cells the model writes: the
\* value is taken as if typed into the sheet, so a text that spells a boolean
\* becomes the boolean, which reads back in capitals; the numbers and the
\* other texts of the model are kept as they are
user_entered(v) ==
    CASE v = Str("true") -> Str("TRUE")
      [] v = Str("false") -> Str("FALSE")
      [] OTHER -> v

\* worksheet.append_rows(rows, value_input_option='USER_ENTERED'): below the
\* last row that holds a value; on a worksheet without any value the first
\* of the rows lands in row 1
append_rows(led, rows) ==
    LET given == [i \in 1..Len(rows) |-> Over(<<>>, rows[i])]
        cells == [i \in 1..Len(given) |->
                    [j \in 1..Len(given[i]) |-> user_entered(given[i][j])]]
    IN
    IF led = EmptySheet /\ cells # <<>>
    THEN [header |-> [j \in 1..Len(cells[1]) |-> CellText(cells[1][j])],
          rows |-> SubSeq(cells, 2, Len(cells))]
    ELSE [led EXCEPT !.rows = led.rows \o cells]

\* delete_user(username_to_delete); f names the store call that raises.
\* Outcomes: NoSheet (189), Raised (an exception of get_users_worksheet,
\* which no handler catches), NotFound (197), UserError (199),
\* LedgerError (219), Deleted (221)
delete_user(ws, led, username_to_delete, f) ==
    IF f = "connect" THEN [users |-> ws, ledger |-> led, ok |-> FALSE, out |-> "NoSheet"]
    ELSE IF f = "row_values" THEN [users |-> ws, ledger |-> led, ok |-> FALSE, out |-> "Raised"]
    ELSE
    LET ws1 == get_users_worksheet(ws)
        r == find(ws1, username_to_delete)
    IN
    IF f = "find" THEN [users |-> ws1, ledger |-> led, ok |-> FALSE, out |-> "UserError"]
    ELSE IF r = 0 THEN [users |-> ws1, ledger |-> led, ok |-> FALSE, out |-> "NotFound"]
    ELSE IF f = "delete_rows"
    THEN [users |-> ws1, ledger |-> led, ok |-> FALSE, out |-> "UserError"]
    ELSE
    LET ws2 == delete_rows(ws1, r)
        all_data == get_all_records(led)
    IN
    IF f = "get_all_records"
    THEN [users |-> ws2, ledger |-> led, ok |-> FALSE, out |-> "LedgerError"]
    ELSE IF all_data = <<>>
    THEN [users |-> ws2, ledger |-> led, ok |-> TRUE, out |-> "Deleted"]
    ELSE IF ~HasCol(led.header, "owner")  \* df['使用者'] raises KeyError
    THEN [users |-> ws2, ledger |-> led, ok |-> FALSE, out |-> "LedgerError"]
    ELSE
    LET o == ColIdx(led.header, "owner")
        NotOwned(row) == row[o] # Str(username_to_delete)
        df_remaining == SelectSeq(all_data, NotOwned)
    IN
    IF f = "clear"
    THEN [users |-> ws2, ledger |-> led, ok |-> FALSE, out |-> "LedgerError"]
    ELSE IF f = "update"
    THEN [users |-> ws2, ledger |-> clear(led), ok |-> FALSE, out |-> "LedgerError"]
    ELSE [users |-> ws2, ledger |-> update(clear(led), led.header, df_remaining),
          ok |-> TRUE, out |-> "Deleted"]

----------------------------------------------------------------------------
(* Saving the edited table, page_invoice_processing 276-301 *)

\* str.strip() on the names the model uses
Strip(s) ==
    CASE s = " " -> ""
      [] s = " Milk" -> "Milk"
      [] OTHER -> s

\* astype(int): a float is cut toward zero
astype_int(v) == IF v.k = "frac" THEN Num(v.n) ELSE v

\* one row without an amount empties the whole batch
final_df_to_save_all_or_nothing(edited_df, username) ==
    LET Named(e) == ~IsNull(e.name) /\ ~IsNull(e.quantity) /\ Strip(e.name.s) # ""
        kept == SelectSeq(edited_df, Named)
    IN IF \E i \in 1..Len(edited_df) : IsNull(edited_df[i].amount) THEN <<>>
       ELSE [i \in 1..Len(kept) |->
               <<kept[i].date, kept[i].name, astype_int(kept[i].quantity), kept[i].category,
                 astype_int(kept[i].amount), Str(username)>>]

\* 280-284: an edited row is [date, name, quantity, category, amount]
final_df_to_save(edited_df, username) ==
    LET Complete(e) == ~IsNull(e.amount) /\ ~IsNull(e.name) /\ ~IsNull(e.quantity)
        Named(e) == Strip(e.name.s) # ""
        kept == SelectSeq(SelectSeq(edited_df, Complete), Named)
    IN [i \in 1..Len(kept) |->
          <<kept[i].date, kept[i].name, astype_int(kept[i].quantity), kept[i].category,
            astype_int(kept[i].amount), Str(username)>>]

\* the handler of the save button; f names the store call that raises.
\* Outcomes: Empty (301), Invalid (299), NoSheet (287 false), Error (300),
\* Saved (295)
save(led, username, edited_df, f) ==
    IF edited_df = <<>> THEN [ledger |-> led, ok |-> FALSE, out |-> "Empty"]
    ELSE
    LET final == final_df_to_save(edited_df, username) IN
    IF final = <<>> THEN [ledger |-> led, ok |-> FALSE, out |-> "Invalid"]
    ELSE IF f = "connect" THEN [ledger |-> led, ok |-> FALSE, out |-> "NoSheet"]
    ELSE IF f = "row_values" THEN [ledger |-> led, ok |-> FALSE, out |-> "Error"]
    ELSE IF led.header = <<>> \/ "owner" \notin Range(led.header)
    THEN IF f = "clear" THEN [ledger |-> led, ok |-> FALSE, out |-> "Error"]
         ELSE IF f = "update" THEN [ledger |-> clear(led), ok |-> FALSE, out |-> "Error"]
         ELSE [ledger |-> update(clear(led), FullHeader, final),
               ok |-> TRUE, out |-> "Saved"]
    ELSE IF f = "append_rows" THEN [ledger |-> led, ok |-> FALSE, out |-> "Error"]
         ELSE [ledger |-> append_rows(led, final), ok |-> TRUE, out |-> "Saved"]

----------------------------------------------------------------------------
(* page_dashboard 331-384 and the cached reads *)

\* the comparison with both sides case-folded
owner_filter_casefold(df_all, username) ==
    LET Mine(r) == Lower(Cell(df_all, r, "owner").s) = Lower(username)
    IN [df_all EXCEPT !.rows = SelectSeq(df_all.rows, Mine)]

\* df_all[df_all['使用者'] == username]
owner_filter(df_all, username) ==
    LET Mine(r) == Cell(df_all, r, "owner") = Str(username)
    IN [df_all EXCEPT !.rows = SelectSeq(df_all.rows, Mine)]

\* df['品項'].str.contains(search_term, case=False, na=False) on the names and
\* the search terms the model uses; a cell that is not a text does not match
contains(v, search_term) ==
    /\ v.k = "str"
    /\ CASE search_term = "milk" -> v.s \in {"Milk", " Milk"}
         [] search_term = "e" -> v.s \in {"Tea", "Pen", "Rice"}
         [] OTHER -> FALSE

\* amounts are summed in halves, so that a float n + 0.5 adds exactly
Halves(v) == IF v.k = "frac" THEN 2 * v.n + 1 ELSE 2 * v.n

\* int(x) of the quotient a / b, b > 0: cut toward zero
Trunc(a, b) == IF a >= 0 THEN a \div b ELSE -((-a) \div b)

\* df['日期'].dt.to_period('M'): yyyymm of a timestamp yyyymmdd
Month(d) == d.n \div 100

RECURSIVE sum(_, _, _)
\* df['金額'].sum() over the rows from the i-th on, in halves
sum(df, rows, i) ==
    IF i > Len(rows) THEN 0
    ELSE Halves(Cell(df, rows[i], "amount")) + sum(df, rows, i + 1)

RECURSIVE SumOf(_, _)
\* Series.sum() of a series f over the index values in S
SumOf(f, S) ==
    IF S = {} THEN 0
    ELSE LET x == CHOOSE y \in S : TRUE IN f[x] + SumOf(f, S \ {x})

\* groupby('月份')['金額'].first(): the first amount of each month
monthly_total_first(df) ==
    LET months == {Month(Cell(df, df.rows[i], "date")) : i \in 1..Len(df.rows)}
        In(m) == LET P(r) == Month(Cell(df, r, "date")) = m IN SelectSeq(df.rows, P)
    IN [m \in months |-> Halves(Cell(df, In(m)[1], "amount"))]

\* df.groupby('月份')['金額'].sum()
monthly_total(df) ==
    LET months == {Month(Cell(df, df.rows[i], "date")) : i \in 1..Len(df.rows)}
        In(m) == LET P(r) == Month(Cell(df, r, "date")) = m IN SelectSeq(df.rows, P)
    IN [m \in months |-> sum(df, In(m), 1)]

\* month_df.groupby('類別')['金額'].sum() for every month that can be selected
category_summary(df) ==
    LET months == {Month(Cell(df, df.rows[i], "date")) : i \in 1..Len(df.rows)}
        Of(m) == LET P(r) == Month(Cell(df, r, "date")) = m IN SelectSeq(df.rows, P)
        Cats(m) == {Cell(df, Of(m)[i], "category") : i \in 1..Len(Of(m))}
        In(m, c) == LET P(r) == Cell(df, r, "category") = c IN SelectSeq(Of(m), P)
    IN [m \in months |-> [c \in Cats(m) |-> sum(df, In(m, c), 1)]]

\* what one render of page_dashboard(username) computes, given load_data()'s
\* result and the text of the search box ("" when it is empty). out names the
\* branch: NoData (333), NoneOwned (337), NoMatch (345), Shown. df is the
\* frame of line 335, shown the frame the aggregates are taken from;
\* total_expense and monthly_total are in halves, monthly_avg is the whole
\* number line 359 prints
page_dashboard(res, username, search_term) ==
    LET none == [user |-> username, search_term |-> search_term, out |-> "NoData",
                 df_all |-> res.df, df |-> EmptyFrame, shown |-> EmptyFrame,
                 removed_count |-> res.removed, total_expense |-> 0,
                 monthly_total |-> <<>>, monthly_avg |-> 0, category_summary |-> <<>>]
    IN
    IF res.df.rows = <<>> THEN none
    ELSE LET df == owner_filter(res.df, username) IN
    IF df.rows = <<>> THEN [none EXCEPT !.out = "NoneOwned", !.df = df, !.shown = df]
    ELSE LET Hit(r) == contains(Cell(df, r, "name"), search_term)
             shown == IF search_term = "" THEN df
                      ELSE [df EXCEPT !.rows = SelectSeq(df.rows, Hit)]
         IN
    IF shown.rows = <<>> THEN [none EXCEPT !.out = "NoMatch", !.df = df, !.shown = shown]
    ELSE LET monthly == monthly_total(shown) IN
         [none EXCEPT !.out = "Shown", !.df = df, !.shown = shown,
                      !.total_expense = sum(shown, shown.rows, 1),
                      !.monthly_total = monthly,
                      !.monthly_avg = Trunc(SumOf(monthly, DOMAIN monthly),
                                            2 * Cardinality(DOMAIN monthly)),
                      !.category_summary = category_summary(shown)]

\* @st.cache_data: the stored result while there is one, else the call
Cached(cache, fresh) == IF Len(cache) = 0 THEN fresh ELSE cache[1]

\* get_all_users() uncached: the records, after get_users_worksheet
get_all_users(ws) == UserRecords(get_users_worksheet(ws))

----------------------------------------------------------------------------
(* Bounds and inputs *)

MaxUsers == 3
MaxRows == 3
MaxLoad == 3

E(d, n, q, c, a) == [date |-> d, name |-> n, quantity |-> q, category |-> c, amount |-> a]

Milk == E(Str("2024-03-01"), Str("Milk"), Num(2), Str("Food"), Num(80))
Tea == E(Str("2024-04-02"), Str("Tea"), Num(1), Str("Food"), Num(120))
\* the placeholder row of line 261, and the same with only a name typed in
Placeholder == E(Str("2024-03-15"), Str(""), Num(1), Str("Other"), Num(0))
Named0 == E(Str("2024-03-15"), Str("Pen"), Num(1), Str("Other"), Num(0))
NoAmount == E(Str("2024-03-01"), Str("Milk"), Num(1), Str("Food"), NaN)
Blank == E(Str("2024-03-01"), Str(" "), Num(1), Str("Food"), Num(80))
Odd == E(Str("soon"), Str("Pen"), Num(0), Str("Other"), Num(-5))
Half == E(NaN, Str("Gum"), Num(1), Str("Food"), Frac(0))

EditedTables ==
    {<<>>, <<Milk>>, <<Milk, Tea>>, <<Named0>>, <<Placeholder>>, <<NoAmount, Tea>>,
     <<NoAmount>>, <<Blank>>, <<Odd>>, <<Half>>}

LegacyRow == <<Str("2024-03-01"), Str("Rice"), Num(1), Str("Food"), Num(50)>>

AdminRow == <<ADMIN_USERNAME, hash_password("p1"), "">>
BobRow == <<"bob", hash_password("p1"), "">>
\* an account whose name spells a boolean
TrueRow == <<"true", hash_password("p1"), "">>

\* the usernames a session can hold: those of the records of the worksheet
\* that check_login can return (username.lower() of line 116 raises on the
\* number a numeric name is read back as)
Registered ==
    {n \in {UserGet(users, i, "username") : i \in 1..UserCount(users)} \ {"None"} :
        numericise(n).k = "str"}

----------------------------------------------------------------------------
(* State and operations *)

\* the operation that made the current state; n0 is the number of ledger
\* rows before it
Op(op, user, table, f, res) ==
    [op |-> op, user |-> user, table |-> table, f |-> f, ok |-> res.ok, out |-> res.out,
     n0 |-> Len(ledger.rows)]

NoRes == [ok |-> TRUE, out |-> ""]

\* the two browser sessions of SpecConc
Sessions == {1, 2}

\* a session with no handler in flight
IdleRun ==
    [op |-> "", pc |-> "idle", user |-> "", rows |-> <<>>, header |-> <<>>, r |-> 0,
     out |-> "", landed |-> ""]

\* the followed session and the handlers in flight stay as they are
Idle == UNCHANGED <<session_state, screen, run>>

InitRest ==
    /\ session_state = <<>>
    /\ screen = [shows |-> "new", file |-> None]
    /\ run = [s \in Sessions |-> IdleRun]
    /\ cacheLoad = None
    /\ cacheUsers = None
    /\ loaded = None
    /\ reloaded = None
    /\ last = [op |-> "init", user |-> "", table |-> <<>>, f |-> "none", ok |-> TRUE,
               out |-> "", n0 |-> 0]

\* the signup form 539-552
AddUser(username, avatar, f) ==
    LET res == add_user(users, username, "p1", avatar, f) IN
    /\ UserCount(users) < MaxUsers
    /\ users' = res.users
    /\ IF res.ok THEN cacheLoad' = None /\ cacheUsers' = None
       ELSE UNCHANGED <<cacheLoad, cacheUsers>>
    /\ last' = Op("add_user", username, <<>>, f, res)
    /\ loaded' = None
    /\ UNCHANGED <<ledger, reloaded>>

\* page_edit_account 401-414 in a session of username
UpdateUser(username, new_password, new_avatar, f) ==
    LET res == update_user(users, username, new_password, new_avatar, f) IN
    /\ new_password # "" \/ new_avatar # ""
    /\ users' = res.users
    /\ IF res.ok THEN cacheLoad' = None /\ cacheUsers' = None
       ELSE UNCHANGED <<cacheLoad, cacheUsers>>
    /\ last' = Op("update_user", username, <<>>, f, res)
    /\ loaded' = None
    /\ UNCHANGED <<ledger, reloaded>>

\* page_edit_account 420-433 in the administrator's session: the list comes
\* from the cached get_all_users()
DeleteByAdmin(user_to_delete, f) ==
    LET all_users == Cached(cacheUsers, get_all_users(users))
        deletable_users == {all_users[i].username.s : i \in 1..Len(all_users)}
        res == delete_user(users, ledger, user_to_delete, f)
    IN
    \* user['username'].lower() of line 423 raises on a number
    /\ \A i \in 1..Len(all_users) : all_users[i].username.k = "str"
    /\ user_to_delete \in deletable_users
    /\ Lower(user_to_delete) # Lower(ADMIN_USERNAME)
    /\ users' = res.users
    /\ ledger' = res.ledger
    /\ IF res.ok THEN cacheLoad' = None /\ cacheUsers' = None
       ELSE cacheUsers' = Some(all_users) /\ UNCHANGED cacheLoad
    /\ last' = Op("delete_admin", user_to_delete, <<>>, f, res)
    /\ loaded' = None
    /\ UNCHANGED reloaded

\* page_edit_account 436-446 in a session of username, not the administrator
DeleteSelf(username, f) ==
    LET res == delete_user(users, ledger, username, f) IN
    /\ Lower(username) # Lower(ADMIN_USERNAME)
    /\ users' = res.users
    /\ ledger' = res.ledger
    /\ last' = Op("delete_self", username, <<>>, f, res)
    /\ loaded' = None
    /\ UNCHANGED <<cacheLoad, cacheUsers, reloaded>>

\* the save button 276-301 in a session of username
Save(username, edited_df, f) ==
    LET res == save(ledger, username, edited_df, f) IN
    /\ Len(ledger.rows) + Len(edited_df) <= MaxRows
    /\ ledger' = res.ledger
    /\ last' = Op("save", username, edited_df, f, res)
    /\ loaded' = None
    /\ UNCHANGED <<users, cacheLoad, cacheUsers, reloaded>>

\* one render of page_dashboard 304-384 in a session of username, with
\* search_term in the search box
Dashboard(username, search_term) ==
    LET res == Cached(cacheLoad, load_data(ledger)) IN
    /\ cacheLoad' = Some(res)
    /\ loaded' = Some(page_dashboard(res, username, search_term))
    /\ last' = Op("dashboard", username, <<>>, "none", NoRes)
    /\ UNCHANGED <<users, ledger, cacheUsers, reloaded>>

\* the login screen 483: get_all_users() through its cache
LoginScreen ==
    LET all_users == Cached(cacheUsers, get_all_users(users)) IN
    /\ cacheUsers' = Some(all_users)
    /\ IF cacheUsers = None THEN users' = get_users_worksheet(users) ELSE UNCHANGED users
    /\ last' = Op("login_screen", "", <<>>, "none", NoRes)
    /\ loaded' = None
    /\ UNCHANGED <<ledger, cacheLoad, reloaded>>

\* ttl=600 and ttl=60: a stored result is dropped when its time is up
Expire ==
    /\ \/ cacheLoad # None /\ cacheLoad' = None /\ UNCHANGED cacheUsers
       \/ cacheUsers # None /\ cacheUsers' = None /\ UNCHANGED cacheLoad
    /\ last' = Op("expire", "", <<>>, "none", NoRes)
    /\ loaded' = None
    /\ UNCHANGED <<users, ledger, reloaded>>

----------------------------------------------------------------------------
(* Spec: accounts and ledger, every store call succeeding *)

PurgeNames == {"bob", "username", "Jerry"}
PurgeTables == {<<Milk>>, <<Milk, Tea>>, <<Named0>>}

\* the worksheet before its first save, with a header already, and two
\* worksheets that predate the owner column
InitLedgers ==
    {EmptySheet,
     [header |-> FullHeader, rows |-> <<>>],
     [header |-> LegacyHeader, rows |-> <<LegacyRow>>],
     [header |-> <<>>, rows |-> <<LegacyRow>>]}

Init ==
    /\ users = <<UsersHeader, AdminRow>>
    /\ ledger \in InitLedgers
    /\ InitRest

Next ==
    \/ \E n \in PurgeNames : AddUser(n, "", "none") /\ Idle
    \/ \E u \in PurgeNames : DeleteByAdmin(u, "none") /\ Idle
    \/ \E u \in Registered : DeleteSelf(u, "none") /\ Idle
    \/ \E u \in Registered, t \in PurgeTables : Save(u, t, "none") /\ Idle

Spec == Init /\ [][Next]_vars

----------------------------------------------------------------------------
(* SpecSave: every edited table, saved by the sessions of two accounts *)

InitSave ==
    /\ users = <<UsersHeader, AdminRow, BobRow>>
    /\ ledger \in InitLedgers
    /\ InitRest

NextSave ==
    /\ \E u \in Registered, t \in EditedTables : Save(u, t, "none")
    /\ Idle

SpecSave == InitSave /\ [][NextSave]_vars

----------------------------------------------------------------------------
(* SpecFail: saves and deletions in which one store call may raise *)

SaveFails == {"none", "connect", "row_values", "clear", "update", "append_rows"}
DeleteFails ==
    {"none", "connect", "row_values", "find", "delete_rows", "get_all_records", "clear",
     "update"}

Stored(e, owner) == <<e.date, e.name, e.quantity, e.category, e.amount, Str(owner)>>

InitFail ==
    /\ users = <<UsersHeader, AdminRow, BobRow>>
    /\ ledger \in InitLedgers \cup
          {[header |-> FullHeader,
            rows |-> <<Stored(Milk, "bob"), Stored(Tea, ADMIN_USERNAME)>>]}
    /\ InitRest

NextFail ==
    \/ /\ \E u \in Registered, t \in {<<Milk>>, <<NoAmount, Tea>>}, f \in SaveFails :
             Save(u, t, f)
       /\ Idle
    \/ \E u \in Registered, f \in DeleteFails : DeleteSelf(u, f) /\ Idle
    \/ \E u \in {"bob"}, f \in DeleteFails : DeleteByAdmin(u, f) /\ Idle
    \/ AddUser("bob", "", "none") /\ Idle

SpecFail == InitFail /\ [][NextFail]_vars

----------------------------------------------------------------------------
(* SpecCache: the mutations and the two cached reads *)

InitCache ==
    /\ users = <<UsersHeader, AdminRow, BobRow>>
    /\ ledger \in {EmptySheet, [header |-> FullHeader, rows |-> <<>>]}
    /\ InitRest

NextCache ==
    \/ \E u \in Registered, t \in {<<Milk>>, <<Tea>>} : Save(u, t, "none") /\ Idle
    \/ \E u \in Registered : Dashboard(u, "") /\ Idle
    \/ LoginScreen /\ Idle
    \/ Expire /\ Idle
    \/ AddUser("bob", "", "none") /\ Idle
    \/ \E u \in Registered : UpdateUser(u, "", "img", "none") /\ Idle
    \/ DeleteByAdmin("bob", "none") /\ Idle
    \/ \E u \in Registered : DeleteSelf(u, "none") /\ Idle

SpecCache == InitCache /\ [][NextCache]_vars

----------------------------------------------------------------------------
(* SpecLoad: load_data and the owner filter on any ledger content *)

R(d, n, q, c, a, o) == <<d, n, q, c, a, o>>

\* ledger rows as a worksheet can hold them: valid rows, rows that repeat a
\* key, rows that differ in the case of the owner or in the blanks of the
\* name, and rows with a text where a date or a number belongs
LoadRows ==
    {R(Str("2024-03-01"), Str("Milk"), Num(2), Str("Food"), Num(80), Str("bob")),
     R(Str("2024-03-01"), Str("Milk"), Num(2), Str("Drink"), Num(80), Str("bob")),
     R(Str("2024-03-01"), Str("Milk"), Num(2), Str("Food"), Num(80), Str("Bob")),
     R(Str("2024-03-01"), Str(" Milk"), Num(2), Str("Food"), Num(80), Str("bob")),
     R(Str("2024-04-02"), Str("Tea"), Num(1), Str("Food"), Num(120), Str("bob")),
     R(Str("2024-04-02"), Str("Tea"), Num(1), Str("Food"), Num(120), Str(ADMIN_USERNAME)),
     R(Str("soon"), Str("Pen"), Num(1), Str("Other"), Num(30), Str("bob")),
     R(Str("2024-03-15"), Str("Pen"), Str("two"), Str("Other"), Num(30), Str("bob")),
     R(Str("2024-03-15"), Str("Pen"), Num(1), Str("Other"), Str("abc"), Str(ADMIN_USERNAME)),
     R(Str("2024-03-15"), Str(""), Num(1), Str("Other"), Num(0), Str(""))}

InitLoad ==
    /\ users = <<UsersHeader, AdminRow, BobRow>>
    /\ ledger \in [header : {FullHeader}, rows : SeqsUpTo(LoadRows, MaxLoad)]
    /\ InitRest

\* lines 320-324 once more, on the frame load_data returned
Reapply ==
    /\ cacheLoad # None
    /\ reloaded = None
    /\ reloaded' = Some(Dedup(cacheLoad[1].df))
    /\ last' = Op("reapply", "", <<>>, "none", NoRes)
    /\ UNCHANGED <<users, ledger, cacheLoad, cacheUsers, loaded>>

NextLoad ==
    \/ \E u \in Registered : Dashboard(u, "") /\ Idle
    \/ Reapply /\ Idle

SpecLoad == InitLoad /\ [][NextLoad]_vars

----------------------------------------------------------------------------
(* SpecDash: the dashboard with its search box and its aggregates *)

\* rows of two months and two owners, a float and a negative amount, and rows
\* with a text where a date or a number belongs
DashRows ==
    {R(Str("2024-03-01"), Str("Milk"), Num(2), Str("Food"), Num(80), Str("bob")),
     R(Str("2024-03-15"), Str("Pen"), Num(1), Str("Other"), Frac(30), Str("bob")),
     R(Str("2024-04-02"), Str("Tea"), Num(1), Str("Food"), Num(120), Str("bob")),
     R(Str("2024-04-02"), Str("Tea"), Num(1), Str("Food"), Num(120), Str(ADMIN_USERNAME)),
     R(Str("2024-03-15"), Str("Gum"), Num(1), Str("Food"), Num(-5), Str("bob")),
     R(Str("soon"), Str("Pen"), Num(1), Str("Other"), Num(30), Str("bob")),
     R(Str("2024-03-15"), Str("Rice"), Str("two"), Str("Food"), Num(50), Str("bob")),
     R(Str("2024-04-02"), Str("Milk"), Num(1), Str("Food"), Str("abc"), Str("bob"))}

SearchTerms == {"", "milk", "e"}

InitDash ==
    /\ users = <<UsersHeader, AdminRow, BobRow>>
    /\ ledger \in [header : {FullHeader}, rows : SeqsUpTo(DashRows, MaxLoad)]
    /\ InitRest

NextDash ==
    /\ \E u \in Registered, t \in SearchTerms : Dashboard(u, t)
    /\ Idle

SpecDash == InitDash /\ [][NextDash]_vars

----------------------------------------------------------------------------
(* SpecUsers: the signup form on the Users worksheet *)

\* row 1 of a worksheet made before the avatar column
LegacyUsersHeader == <<"username", "hashed_password">>

SignupNames == {"bob", "Bob", "amy", "Jerry", "007"}

InitUsers ==
    /\ users \in {<<UsersHeader, AdminRow>>,
                  <<LegacyUsersHeader, <<ADMIN_USERNAME, hash_password("p1")>>>>}
    /\ ledger = [header |-> FullHeader, rows |-> <<>>]
    /\ InitRest

NextUsers ==
    /\ \E n \in SignupNames, a \in {"", "img"}, f \in {"none", "connect"} : AddUser(n, a, f)
    /\ Idle

SpecUsers == InitUsers /\ [][NextUsers]_vars

----------------------------------------------------------------------------
(* One browser session: st.session_state and the script runs 450-584.      *)
(* screen.shows is what the last script run rendered ("new" before the     *)
(* first run, "rerun" when st.rerun() has asked for another run);          *)
(* screen.file is the file the uploader widgets of the invoice page hold.  *)

Has(ss, k) == k \in DOMAIN ss

\* st.session_state[k] = v
Put(ss, k, v) == [x \in DOMAIN ss \cup {k} |-> IF x = k THEN v ELSE ss[x]]

\* if k not in st.session_state: st.session_state[k] = v
Default(ss, k, v) == IF Has(ss, k) THEN ss ELSE Put(ss, k, v)

\* only the two login keys are removed
del_login_keys(ss) == [k \in DOMAIN ss \ {"logged_in", "username"} |-> ss[k]]

\* for key in st.session_state.keys(): del st.session_state[key]
del_all_keys(ss) == [k \in {} |-> ss[k]]

\* lines 450-452
ScriptTop(ss) ==
    Default(Default(Default(ss, "logged_in", FALSE), "selected_user", None),
            "show_signup", FALSE)

\* datetime.now().strftime('%Y-%m-%d') on the day of the run
today == "2024-03-15"

\* the keys parse_with_gemini asks for in every item
ItemKeys == {"name", "quantity", "category", "amount"}

\* what parse_with_gemini returns: k is "none" (None), "list" (JSON that is
\* not an object) or "dict"; has_items says whether the object has the key
\* 'items'; invoice_date is NaN when the key is null or missing; an item is
\* a function from the keys it has to their values
Parsed(k, has_items, items, invoice_date) ==
    [k |-> k, has_items |-> has_items, items |-> items, invoice_date |-> invoice_date]

\* item.get(key) in the frame pd.DataFrame(parsed_items): NaN for a key the
\* item does not have
ItemGet(item, key) == IF key \in DOMAIN item THEN item[key] ELSE NaN

\* lines 257-268, given parse_with_gemini's result: ok is FALSE when line 268
\* raises KeyError (a column none of the items has), and df is then unused
recognise(parsed_data) ==
    IF \/ parsed_data.k # "dict"
       \/ ~parsed_data.has_items
       \/ parsed_data.items = <<>>
    THEN [ok |-> TRUE, out |-> "Placeholder",
          df |-> <<E(Str(today), Str(""), Num(1), Str("Other"), Num(0))>>]
    ELSE LET parsed_items == parsed_data.items
             columns == UNION {DOMAIN parsed_items[i] : i \in 1..Len(parsed_items)}
             invoice_date == IF IsNull(parsed_data.invoice_date) \/ parsed_data.invoice_date = Str("")
                             THEN Str(today) ELSE parsed_data.invoice_date
         IN IF ~(ItemKeys \subseteq columns)
            THEN [ok |-> FALSE, out |-> "KeyError", df |-> <<>>]
            ELSE [ok |-> TRUE, out |-> "Parsed",
                  df |-> [i \in 1..Len(parsed_items) |->
                            E(invoice_date, ItemGet(parsed_items[i], "name"),
                              ItemGet(parsed_items[i], "quantity"),
                              ItemGet(parsed_items[i], "category"),
                              ItemGet(parsed_items[i], "amount"))]]

\* lines 272-274: the table handed to the data editor
df_for_editing(parsed_df) ==
    [i \in 1..Len(parsed_df) |->
        [parsed_df[i] EXCEPT
            !.amount = to_numeric(@),
            !.quantity = IF IsNull(to_numeric(@)) THEN Num(1) ELSE astype_int(to_numeric(@))]]

\* check_login(username, password): the first account whose name matches
\* ignoring case and whose digest matches; username is then the name of that
\* record (117). The form passes a text (SelectUser), and a record read back
\* as a number matches no text a button can hold, so the name returned is a
\* text and str() leaves it as it is
check_login(ws, username, password) ==
    LET ws1 == get_users_worksheet(ws)
        recs == UserRecords(ws1)
        Match(i) == /\ Lower(str(recs[i].username)) = Lower(username)
                    /\ recs[i].hashed_password = hash_password(password)
    IN IF \E i \in 1..Len(recs) : Match(i)
       THEN LET i == CHOOSE j \in 1..Len(recs) : Match(j) /\ \A q \in 1..(j - 1) : ~Match(q)
            IN [users |-> ws1, ok |-> TRUE, out |-> "LoggedIn", username |-> str(recs[i].username)]
       ELSE [users |-> ws1, ok |-> FALSE, out |-> "WrongPassword", username |-> ""]

Pages == {"invoice", "dashboard", "account"}

\* lines 236-249 of page_invoice_processing with file in the uploader
InvoiceState(ss, file) ==
    LET ss1 == Default(Default(Default(ss, "parsed_df", None),
                               "uploaded_file_content", None), "uploaded_file_name", None)
    IN IF file # None /\ ss1["uploaded_file_name"] # file
       THEN Put(Put(Put(ss1, "parsed_df", None), "uploaded_file_name", file),
                "uploaded_file_content", file)
       ELSE ss1

\* the invoice page is rendered and no button of it is pressed
InvoicePage(ss, file) ==
    /\ session_state' = InvoiceState(ss, file)
    /\ screen' = [shows |-> "invoice", file |-> file]
    /\ last' = Op("invoice_page", ss["username"], <<>>, "none", NoRes)
    /\ loaded' = None
    /\ UNCHANGED <<users, ledger, cacheLoad, cacheUsers, reloaded>>

\* the account page is rendered and no button of it is pressed: the
\* administrator's page lists the accounts (422)
AccountPage(ss) ==
    LET all_users == Cached(cacheUsers, get_all_users(users)) IN
    /\ session_state' = ss
    /\ screen' = [shows |-> "account", file |-> None]
    /\ last' = Op("account_page", ss["username"], <<>>, "none", NoRes)
    /\ loaded' = None
    /\ IF Lower(ss["username"]) = Lower(ADMIN_USERNAME)
       THEN /\ cacheUsers' = Some(all_users)
            /\ IF cacheUsers = None THEN users' = get_users_worksheet(users)
               ELSE UNCHANGED users
       ELSE UNCHANGED <<users, cacheUsers>>
    /\ UNCHANGED <<ledger, cacheLoad, reloaded>>

\* lines 579-584 for a logged-in session ss
ShowPage(ss) ==
    \/ ss["page"] = "invoice" /\ InvoicePage(ss, screen.file)
    \/ /\ ss["page"] = "dashboard"
       /\ Dashboard(ss["username"], "")
       /\ session_state' = ss
       /\ screen' = [shows |-> "dashboard", file |-> None]
    \/ ss["page"] = "account" /\ AccountPage(ss)

\* a script run that no widget started: the first one, or the one st.rerun()
\* asked for
Render ==
    LET ss == ScriptTop(session_state) IN
    /\ screen.shows \in {"new", "rerun"}
    /\ \/ /\ ~ss["logged_in"]
          /\ LoginScreen
          /\ session_state' = ss
          /\ screen' = [shows |-> "login", file |-> None]
       \/ /\ ss["logged_in"]
          /\ ShowPage(Default(ss, "page", "invoice"))
    /\ UNCHANGED run

\* the session is logged in and its last run rendered a page
OnPage == screen.shows \in Pages

\* a button of the sidebar 566-571
Navigate(page) ==
    /\ OnPage
    /\ ShowPage(Put(session_state, "page", page))
    /\ UNCHANGED run

\* the search box of the dashboard 341
Search(search_term) ==
    /\ screen.shows = "dashboard"
    /\ Dashboard(session_state["username"], search_term)
    /\ UNCHANGED <<session_state, screen, run>>

\* the logout button 574-577
Logout ==
    /\ OnPage
    /\ session_state' = del_all_keys(session_state)
    /\ screen' = [shows |-> "rerun", file |-> None]
    /\ last' = Op("logout", session_state["username"], <<>>, "none", NoRes)
    /\ loaded' = None
    /\ UNCHANGED <<users, ledger, cacheLoad, cacheUsers, reloaded, run>>

\* a button of the login screen 499-502: the names come from the cached
\* get_all_users(); a name read back as a number cannot log in (116 raises)
SelectUser(username) ==
    LET all_users == Cached(cacheUsers, get_all_users(users)) IN
    /\ screen.shows = "login"
    /\ \E i \in 1..Len(all_users) : all_users[i].username = Str(username)
    /\ session_state' = Put(Put(session_state, "selected_user", Some(username)),
                            "show_signup", FALSE)
    /\ screen' = [shows |-> "rerun", file |-> None]
    /\ cacheUsers' = Some(all_users)
    /\ IF cacheUsers = None THEN users' = get_users_worksheet(users) ELSE UNCHANGED users
    /\ last' = Op("select_user", username, <<>>, "none", NoRes)
    /\ loaded' = None
    /\ UNCHANGED <<ledger, cacheLoad, reloaded, run>>

\* the button 新增使用者 506-509
ShowSignup ==
    /\ screen.shows = "login"
    /\ session_state' = Put(Put(session_state, "show_signup", TRUE), "selected_user", None)
    /\ screen' = [shows |-> "rerun", file |-> None]
    /\ last' = Op("show_signup", "", <<>>, "none", NoRes)
    /\ loaded' = None
    /\ UNCHANGED <<users, ledger, cacheLoad, cacheUsers, reloaded, run>>

\* the password form 511-527
Login(password) ==
    LET selected_user == session_state["selected_user"]
        res == check_login(users, selected_user[1], password)
    IN
    /\ screen.shows = "login"
    /\ selected_user # None /\ ~session_state["show_signup"]
    /\ users' = res.users
    /\ IF res.ok
       THEN /\ session_state' = Put(Put(Put(session_state, "logged_in", TRUE),
                                        "username", res.username), "selected_user", None)
            /\ screen' = [shows |-> "rerun", file |-> None]
       ELSE UNCHANGED <<session_state, screen>>
    /\ last' = Op("login", selected_user[1], <<>>, "none", res)
    /\ loaded' = None
    /\ UNCHANGED <<ledger, cacheLoad, cacheUsers, reloaded, run>>

\* the signup form 529-553 submitted with a name and a password
Signup(new_username) ==
    /\ screen.shows = "login"
    /\ session_state["show_signup"]
    /\ AddUser(new_username, "", "none")
    /\ IF last'.ok
       THEN /\ session_state' = Put(session_state, "show_signup", FALSE)
            /\ screen' = [shows |-> "rerun", file |-> None]
       ELSE UNCHANGED <<session_state, screen>>
    /\ UNCHANGED run

\* a picture is taken or chosen 240-249
Upload(file) ==
    /\ screen.shows = "invoice"
    /\ InvoicePage(session_state, Some(file))
    /\ UNCHANGED run

\* the button 1. 開始辨識 253-268 with parse_with_gemini returning parsed_data
Recognise(parsed_data) ==
    LET ss == InvoiceState(session_state, screen.file)
        res == recognise(parsed_data)
    IN
    /\ screen.shows = "invoice"
    /\ screen.file # None
    /\ ss["uploaded_file_content"] # None
    /\ session_state' = IF res.ok THEN Put(ss, "parsed_df", Some(res.df)) ELSE ss
    /\ last' = Op("recognise", ss["username"], <<parsed_data>>, "none", res)
    /\ loaded' = None
    /\ UNCHANGED <<users, ledger, cacheLoad, cacheUsers, reloaded, screen, run>>

\* the button 確認並儲存 276-301; the data editor holds the table as
\* recognised (272-274) or one of the tables edits, the user's edits of it
SaveEdited(edits) ==
    /\ screen.shows = "invoice"
    /\ screen.file # None
    /\ Has(session_state, "parsed_df") /\ session_state["parsed_df"] # None
    /\ \E edited_df \in {df_for_editing(session_state["parsed_df"][1])} \cup edits :
          Save(session_state["username"], edited_df, "none")
    /\ IF last'.ok
       THEN /\ session_state' = Put(Put(Put(session_state, "parsed_df", None),
                                        "uploaded_file_name", None),
                                    "uploaded_file_content", None)
            /\ screen' = [screen EXCEPT !.shows = "rerun"]
       ELSE UNCHANGED <<session_state, screen>>
    /\ UNCHANGED run

\* the button 永久刪除我的帳號 436-446
DeleteMyAccount ==
    /\ screen.shows = "account"
    /\ DeleteSelf(session_state["username"], "none")
    /\ IF last'.ok
       THEN /\ session_state' = del_all_keys(session_state)
            /\ screen' = [shows |-> "rerun", file |-> None]
       ELSE UNCHANGED <<session_state, screen>>
    /\ UNCHANGED run

----------------------------------------------------------------------------
(* SpecSession: one browser session from its first script run on *)

MilkItem == [name |-> Str("Milk"), quantity |-> Num(2), category |-> Str("Food"),
             amount |-> Num(80)]
TeaItem == [name |-> Str("Tea"), quantity |-> Num(1), category |-> Str("Food"),
            amount |-> Num(120)]
\* an item for which the model gave only a name and an amount
ShortItem == [name |-> Str("Pen"), amount |-> Num(30)]

\* results of parse_with_gemini: None, a JSON list, {}, an object without
\* 'items', an empty 'items', items with and without a date, an item that
\* lacks keys alone and next to a complete one
ParsedInputs ==
    {Parsed("none", FALSE, <<>>, NaN),
     Parsed("list", FALSE, <<>>, NaN),
     Parsed("dict", FALSE, <<>>, Str("2024-03-01")),
     Parsed("dict", TRUE, <<>>, Str("2024-03-01")),
     Parsed("dict", TRUE, <<MilkItem>>, Str("2024-03-01")),
     Parsed("dict", TRUE, <<MilkItem, TeaItem>>, NaN),
     Parsed("dict", TRUE, <<ShortItem>>, Str("2024-03-01")),
     Parsed("dict", TRUE, <<MilkItem, ShortItem>>, NaN)}

\* tables the user's edits can leave in the data editor
EditorTables == {<<NoAmount>>, <<>>}

InitSession ==
    /\ users = <<UsersHeader, AdminRow, BobRow>>
    /\ ledger = [header |-> FullHeader, rows |-> <<Stored(Tea, "bob")>>]
    /\ InitRest

NextSession ==
    \/ Render
    \/ \E page \in Pages : Navigate(page)
    \/ \E t \in {"milk"} : Search(t)
    \/ Logout
    \/ \E u \in {ADMIN_USERNAME, "bob", "Bob"} : SelectUser(u)
    \/ ShowSignup
    \/ \E password \in {"p1", "p2"} : Login(password)
    \/ \E n \in {"Bob"} : Signup(n)
    \/ \E file \in {"a.png"} : Upload(file)
    \/ \E parsed_data \in ParsedInputs : Recognise(parsed_data)
    \/ SaveEdited(EditorTables)
    \/ DeleteMyAccount

SpecSession == InitSession /\ [][NextSession]_vars

----------------------------------------------------------------------------
(* SpecLogin: one browser session that logs in and saves, while the        *)
(* administrator deletes an account and a name is registered elsewhere     *)

InitLogin ==
    /\ users = <<UsersHeader, AdminRow, BobRow, TrueRow>>
    /\ ledger \in {EmptySheet, [header |-> FullHeader, rows |-> <<>>]}
    /\ InitRest

NextLogin ==
    \/ Render
    \/ \E page \in {"invoice", "dashboard"} : Navigate(page)
    \/ Logout
    \/ \E u \in {"bob", "Bob", "true"} : SelectUser(u)
    \/ \E password \in {"p1", "p2"} : Login(password)
    \/ \E file \in {"a.png"} : Upload(file)
    \/ Recognise(Parsed("dict", TRUE, <<MilkItem>>, Str("2024-03-01")))
    \/ SaveEdited({})
    \/ DeleteByAdmin("bob", "none") /\ Idle
    \/ AddUser("Bob", "", "none") /\ Idle

SpecLogin == InitLogin /\ [][NextLogin]_vars

----------------------------------------------------------------------------
(* Two sessions at once: the save button and delete_user taken one store   *)
(* call at a time. run[s] is the handler of session s: op, the store call  *)
(* it makes next (pc), its user, and what it has read or computed so far:  *)
(* header (row 1 as read), rows (the rows it will write), r (the row       *)
(* find() returned). landed records, for a save, the pc of the other       *)
(* session's delete_user at the moment the save's rows were written.       *)

OtherSession(s) == CHOOSE t \in Sessions : t # s

\* a step of session s that leaves the worksheets to the other variables
Step(s, new) ==
    /\ run' = [run EXCEPT ![s] = new]
    /\ UNCHANGED <<cacheLoad, cacheUsers, loaded, reloaded, last, session_state, screen>>

\* 276-286: the button is pressed, the rows are prepared, the sheet is opened
BeginSave(s, username, edited_df) ==
    LET final == final_df_to_save(edited_df, username) IN
    /\ run[s].pc = "idle"
    /\ Step(s, [run[s] EXCEPT !.op = "save", !.user = username, !.rows = final,
                              !.pc = IF final = <<>> THEN "done" ELSE "row_values",
                              !.out = IF final = <<>> THEN "Invalid" ELSE ""])
    /\ UNCHANGED <<users, ledger>>

\* 289-290: worksheet_daily.row_values(1) and the test on it
SaveRowValues(s) ==
    LET header_daily == TrimRight(ledger.header) IN
    /\ run[s].op = "save" /\ run[s].pc = "row_values"
    /\ Step(s, [run[s] EXCEPT !.header = header_daily,
                              !.pc = IF header_daily = <<>> \/ "owner" \notin Range(header_daily)
                                     THEN "clear" ELSE "append_rows"])
    /\ UNCHANGED <<users, ledger>>

\* 291: worksheet_daily.clear()
SaveClear(s) ==
    /\ run[s].op = "save" /\ run[s].pc = "clear"
    /\ ledger' = clear(ledger)
    /\ Step(s, [run[s] EXCEPT !.pc = "update"])
    /\ UNCHANGED users

\* 292 or 294, then 295: the rows are written and the save reports success
SaveWrite(s) ==
    /\ run[s].op = "save" /\ run[s].pc \in {"update", "append_rows"}
    /\ ledger' = IF run[s].pc = "update" THEN update(ledger, FullHeader, run[s].rows)
                 ELSE append_rows(ledger, run[s].rows)
    /\ Step(s, [run[s] EXCEPT !.pc = "done", !.out = "Saved",
                              !.landed = IF run[OtherSession(s)].op = "delete"
                                         THEN run[OtherSession(s)].pc ELSE ""])
    /\ UNCHANGED users

\* 187-192: delete_user is called, the Users worksheet is opened
BeginDelete(s, username_to_delete) ==
    /\ run[s].pc = "idle"
    /\ users' = get_users_worksheet(users)
    /\ Step(s, [run[s] EXCEPT !.op = "delete", !.user = username_to_delete, !.pc = "find"])
    /\ UNCHANGED ledger

\* 194 and 196-197: users_ws.find
DeleteFind(s) ==
    LET r == find(users, run[s].user) IN
    /\ run[s].op = "delete" /\ run[s].pc = "find"
    /\ Step(s, IF r = 0 THEN [run[s] EXCEPT !.pc = "done", !.out = "NotFound"]
               ELSE [run[s] EXCEPT !.r = r, !.pc = "delete_rows"])
    /\ UNCHANGED <<users, ledger>>

\* 195: users_ws.delete_rows(cell.row), with the row number find() gave
DeleteRows(s) ==
    /\ run[s].op = "delete" /\ run[s].pc = "delete_rows"
    /\ users' = IF run[s].r <= Len(users) THEN delete_rows(users, run[s].r) ELSE users
    /\ Step(s, [run[s] EXCEPT !.pc = "get_all_records"])
    /\ UNCHANGED ledger

\* 203-208: the ledger is read and the rows to keep are computed
DeleteRead(s) ==
    LET all_data == get_all_records(ledger)
        o == ColIdx(ledger.header, "owner")
        NotOwned(row) == row[o] # Str(run[s].user)
    IN
    /\ run[s].op = "delete" /\ run[s].pc = "get_all_records"
    /\ Step(s, IF all_data = <<>> THEN [run[s] EXCEPT !.pc = "done", !.out = "Deleted"]
               ELSE IF o = 0 THEN [run[s] EXCEPT !.pc = "done", !.out = "LedgerError"]
               ELSE [run[s] EXCEPT !.header = ledger.header,
                                   !.rows = SelectSeq(all_data, NotOwned), !.pc = "clear"])
    /\ UNCHANGED <<users, ledger>>

\* 210: data_ws.clear()
DeleteClear(s) ==
    /\ run[s].op = "delete" /\ run[s].pc = "clear"
    /\ ledger' = clear(ledger)
    /\ Step(s, [run[s] EXCEPT !.pc = "update"])
    /\ UNCHANGED users

\* 211-214 and 221: the kept rows are written back under their header
DeleteUpdate(s) ==
    /\ run[s].op = "delete" /\ run[s].pc = "update"
    /\ ledger' = update(ledger, run[s].header, run[s].rows)
    /\ Step(s, [run[s] EXCEPT !.pc = "done", !.out = "Deleted"])
    /\ UNCHANGED users

----------------------------------------------------------------------------
(* SpecConc: one handler in each of two sessions, every interleaving *)

ConcTables == {<<Milk>>, <<Milk, Named0>>}

InitConc ==
    /\ users = <<UsersHeader, AdminRow, BobRow>>
    /\ ledger \in {EmptySheet,
                   [header |-> FullHeader, rows |-> <<>>],
                   [header |-> LegacyHeader, rows |-> <<LegacyRow>>],
                   [header |-> FullHeader,
                    rows |-> <<Stored(Tea, "bob"), Stored(Tea, ADMIN_USERNAME)>>]}
    /\ InitRest

NextConc ==
    \E s \in Sessions :
        \/ \E u \in {ADMIN_USERNAME, "bob"}, t \in ConcTables : BeginSave(s, u, t)
        \/ SaveRowValues(s)
        \/ SaveClear(s)
        \/ SaveWrite(s)
        \/ BeginDelete(s, "bob")
        \/ DeleteFind(s)
        \/ DeleteRows(s)
        \/ DeleteRead(s)
        \/ DeleteClear(s)
        \/ DeleteUpdate(s)

SpecConc == InitConc /\ [][NextConc]_vars

----------------------------------------------------------------------------
(* Claims *)

\* the owner cell of a ledger row under a header; blank without the column
OwnerOf(header, row) ==
    LET o == ColIdx(header, "owner") IN
    IF o = 0 \/ o > Len(row) THEN Str("") ELSE row[o]

RowsNotOwnedBy(led, u) ==
    LET NotOf(row) == OwnerOf(led.header, row) # Str(u) IN SelectSeq(led.rows, NotOf)

IsDelete(l) == l.op \in {"delete_admin", "delete_self"}

\* C1: a successful delete_user(u) leaves exactly the rows not owned by u, in
\* their order, removes the credential row of u, and a second delete_user(u)
\* ends NotFound
C1_PurgeExact ==
    [][(IsDelete(last') /\ last'.ok) =>
          /\ ledger'.rows = RowsNotOwnedBy(ledger, last'.user)
          /\ \A i \in 1..Len(users') : users'[i][1] # last'.user
          /\ delete_user(users', ledger', last'.user, "none").out = "NotFound"]_vars

SavedOk(l) == l.op = "save" /\ l.ok

\* C2: a successful save keeps every stored row, in order, and puts the new
\* rows after them, whatever the header row was
C2_SaveAppends ==
    [][SavedOk(last') =>
          /\ Len(ledger'.rows) > Len(ledger.rows)
          /\ SubSeq(ledger'.rows, 1, Len(ledger.rows)) = ledger.rows]_vars

\* the LineItem invariant of a stored row
ValidLineItem(header, row) ==
    LET q == row[ColIdx(header, "quantity")]
        a == row[ColIdx(header, "amount")]
        n == row[ColIdx(header, "name")]
        d == row[ColIdx(header, "date")]
    IN /\ q.k = "num" /\ q.n >= 1
       /\ a.k = "num" /\ a.n > 0
       /\ n.k = "str" /\ Strip(n.s) # ""
       /\ d.k = "str" /\ d.s \in DOMAIN DateTexts
       /\ OwnerOf(header, row) # Str("")

\* C3: every row a save has written (the rows under a header with the owner
\* column) has quantity >= 1, amount > 0, a name, a date that parses and an
\* owner
C3_WrittenRowsValid ==
    HasCol(ledger.header, "owner") =>
        \A i \in 1..Len(ledger.rows) : ValidLineItem(ledger.header, ledger.rows[i])

\* the store call named by f is reached and raises in the operation of l
Raises(l, ws, led) ==
    /\ l.f # "none"
    /\ \/ l.op = "save" /\ save(led, l.user, l.table, l.f) # save(led, l.user, l.table, "none")
       \/ IsDelete(l) /\ delete_user(ws, led, l.user, l.f) # delete_user(ws, led, l.user, "none")

\* C7: a save or a delete_user in which a store call raises reports failure
\* and leaves the ledger and the Users worksheet as they were
C7_FailureChangesNothing ==
    [][Raises(last', users, ledger) =>
          ~last'.ok /\ ledger' = ledger /\ users' = users]_vars

\* C8: after a delete_user(u) that removed the credential row and failed on
\* the ledger, the outcome is neither NotFound nor NoSheet, and the next
\* delete_user(u) removes the ledger rows of u
C8_RetryCompletesPurge ==
    [][(IsDelete(last) /\ last.out = "LedgerError"
          /\ RowsNotOwnedBy(ledger, last.user) # ledger.rows
          /\ IsDelete(last') /\ last'.user = last.user /\ last'.f = "none") =>
          /\ last'.out \notin {"NotFound", "NoSheet"}
          /\ ledger'.rows = RowsNotOwnedBy(ledger, last.user)]_vars

\* the rows of the ledger that the save of l wrote: its last rows
WrittenBy(l, led) ==
    {i \in 1..Len(led.rows) :
        i > Len(led.rows) - Len(final_df_to_save(l.table, l.user))}

\* row i of the ledger has the key of an earlier row
DuplicateOfEarlier(led, i) ==
    LET df == Coerce(DataFrame(led.header, get_all_records(led))) IN
    \E j \in 1..(i - 1) :
        Key(df, df.rows[j], required_cols) = Key(df, df.rows[i], required_cols)

\* C5: the dashboard read that follows a successful save shows every valid
\* row of that save that does not repeat an earlier row
C5_SavedRowIsRead ==
    [][(SavedOk(last) /\ last'.op = "dashboard" /\ last'.user = last.user) =>
          \A i \in WrittenBy(last, ledger) :
              (ValidLineItem(ledger.header, ledger.rows[i])
                 /\ ~DuplicateOfEarlier(ledger, i))
              => \E j \in 1..Len(loaded'[1].df.rows) : loaded'[1].df.rows[j].idx = i]_vars

\* C6: a cached read never returns what the store held before a mutation:
\* the dashboard reads the ledger as it is, the login screen the accounts as
\* they are
C6_ReadsAreFresh ==
    /\ last.op = "dashboard" =>
          /\ loaded[1].df_all = load_data(ledger).df
          /\ loaded[1].removed_count = load_data(ledger).removed
    /\ last.op = "login_screen" => cacheUsers[1] = get_all_users(users)

\* the ledger as load_data coerces it, before any row is dropped
Coerced(led) == Coerce(DataFrame(led.header, get_all_records(led)))

\* row i of the coerced ledger has every required field
ValidAtLoad(df, i) ==
    \A c \in 1..Len(required_cols) : ~IsNull(Cell(df, df.rows[i], required_cols[c]))

SameKey(df, i, j) ==
    Key(df, df.rows[i], required_cols) = Key(df, df.rows[j], required_cols)

\* row i is valid and no valid row before it has its key
FirstOfItsKey(df, i) ==
    /\ ValidAtLoad(df, i)
    /\ \A j \in 1..(i - 1) : ValidAtLoad(df, j) => ~SameKey(df, i, j)

HasIdx(rows, i) == \E j \in 1..Len(rows) : rows[j].idx = i

\* C4: the rows the dashboard of u goes on with all have owner exactly u, and
\* every row of the deduplicated frame whose owner is u is among them
C4_OwnerScope ==
    last.op = "dashboard" =>
        LET d == loaded[1] IN
        /\ \A j \in 1..Len(d.df.rows) :
              /\ Cell(d.df, d.df.rows[j], "owner") = Str(d.user)
              /\ d.df.rows[j] \in Range(d.df_all.rows)
        /\ \A i \in 1..Len(d.df_all.rows) :
              Cell(d.df_all, d.df_all.rows[i], "owner") = Str(d.user)
              => HasIdx(d.df.rows, d.df_all.rows[i].idx)

\* a dashboard of bob that shows rows while the ledger also holds a valid row
\* owned by "Bob" and a row of another account
C4_Witness ==
    /\ last.op = "dashboard" /\ last.user = "bob"
    /\ loaded[1].out = "Shown"
    /\ \E j \in 1..Len(loaded[1].df_all.rows) :
          Cell(loaded[1].df_all, loaded[1].df_all.rows[j], "owner") = Str("Bob")
    /\ Len(loaded[1].df_all.rows) >= Len(loaded[1].df.rows) + 2

\* C9: lines 320-324 applied to the frame load_data returned give that frame
C9_DedupIdempotent ==
    reloaded # None => reloaded[1] = cacheLoad[1].df

\* the second application ran on a frame that lost a duplicate or an invalid
\* row and kept two rows
C9_Witness ==
    /\ reloaded # None
    /\ cacheLoad[1].removed >= 1
    /\ Len(reloaded[1].rows) >= 2

\* C10: the frame of load_data is the coerced ledger rows in ledger order,
\* each the first valid row of its key, one for every key of a valid row
C10_FirstKeptInOrder ==
    (cacheLoad # None /\ ledger.rows # <<>>) =>
        LET out == cacheLoad[1].df.rows
            in == Coerced(ledger)
        IN /\ \A j \in 1..Len(out) :
                 /\ out[j].idx \in 1..Len(in.rows)
                 /\ out[j] = in.rows[out[j].idx]
                 /\ FirstOfItsKey(in, out[j].idx)
           /\ \A j \in 1..Len(out), k \in 1..Len(out) : j < k => out[j].idx < out[k].idx
           /\ \A i \in 1..Len(in.rows) : FirstOfItsKey(in, i) => HasIdx(out, i)

\* a ledger of three valid rows whose third repeats the key of the first:
\* load_data keeps rows 1 and 2
C10_Witness ==
    /\ cacheLoad # None
    /\ Len(ledger.rows) = 3
    /\ LET in == Coerced(ledger) IN
          /\ \A i \in 1..3 : ValidAtLoad(in, i)
          /\ SameKey(in, 1, 3) /\ ~SameKey(in, 1, 2)
    /\ Len(cacheLoad[1].df.rows) = 2
    /\ cacheLoad[1].df.rows[1].idx = 1 /\ cacheLoad[1].df.rows[2].idx = 2

\* a text cell without its surrounding blanks; any other cell as it is
Trimmed(v) == IF v.k = "str" THEN Str(Strip(v.s)) ELSE v

\* the key of row i with its text fields trimmed
NormKey(df, i) ==
    [c \in 1..Len(required_cols) |-> Trimmed(Cell(df, df.rows[i], required_cols[c]))]

\* C11: load_data keeps a valid row exactly when no valid row before it has
\* the same (date, name, quantity, amount, owner) after coercion and after
\* trimming the texts: rows that differ only in surrounding blanks collapse to
\* the first, rows that differ in a normalized field are both kept
C11_TrimmedDuplicates ==
    (cacheLoad # None /\ ledger.rows # <<>>) =>
        LET in == Coerced(ledger)
            out == cacheLoad[1].df.rows
        IN \A i \in 1..Len(in.rows) :
              ValidAtLoad(in, i) =>
                 (HasIdx(out, i) <=>
                     \A j \in 1..(i - 1) :
                        ValidAtLoad(in, j) => NormKey(in, j) # NormKey(in, i))

\* the rows of the ledger that are valid and repeat the key of an earlier
\* valid row
DuplicateRows(led) ==
    LET in == Coerced(led) IN
    {i \in 1..Len(in.rows) : ValidAtLoad(in, i) /\ ~FirstOfItsKey(in, i)}

\* C12: the count load_data returns is the number of rows dropped because an
\* earlier row had their key, also when the ledger holds invalid rows, and
\* the read leaves the ledger as it was
C12_CountsDuplicatesOnly ==
    [][(last'.op = "dashboard" /\ ledger.rows # <<>>) =>
          /\ ledger' = ledger
          /\ loaded'[1].removed_count = Cardinality(DuplicateRows(ledger))]_vars

\* C13: when the dashboard shows aggregates, the monthly sums add up to the
\* total of all amounts
C13_MonthlySumsToTotal ==
    (last.op = "dashboard" /\ loaded[1].out = "Shown") =>
        SumOf(loaded[1].monthly_total, DOMAIN loaded[1].monthly_total)
            = loaded[1].total_expense

\* aggregates over three rows or more, two of them in one month, and two
\* months
C13_Witness ==
    /\ last.op = "dashboard" /\ loaded[1].out = "Shown"
    /\ Len(loaded[1].shown.rows) >= 3
    /\ Cardinality(DOMAIN loaded[1].monthly_total) = 2
    /\ loaded[1].total_expense # 0

\* the rows of the ledger that fail a LineItem invariant at load time
InvalidRows(led) ==
    LET in == Coerced(led) IN {i \in 1..Len(in.rows) : ~ValidAtLoad(in, i)}

\* the ledger rows the aggregates of d may draw on: valid, first of their key,
\* owned by the user of d and matching its search box
Contributing(led, d) ==
    LET in == Coerced(led) IN
    {i \in 1..Len(in.rows) :
        /\ FirstOfItsKey(in, i)
        /\ Cell(in, in.rows[i], "owner") = Str(d.user)
        /\ d.search_term # "" => contains(Cell(in, in.rows[i], "name"), d.search_term)}

\* the amounts of the rows in S, in halves
AmountOf(led, S) ==
    LET in == Coerced(led) IN
    SumOf([i \in S |-> Halves(Cell(in, in.rows[i], "amount"))], S)

\* every aggregate of d is the one of the contributing rows of the ledger
AggregatesFromValidRows(led, d) ==
    LET in == Coerced(led)
        S == Contributing(led, d)
        MonthOf(i) == Month(Cell(in, in.rows[i], "date"))
        CatOf(i) == Cell(in, in.rows[i], "category")
    IN /\ d.total_expense = AmountOf(led, S)
       /\ DOMAIN d.monthly_total = {MonthOf(i) : i \in S}
       /\ DOMAIN d.category_summary = DOMAIN d.monthly_total
       /\ \A m \in DOMAIN d.monthly_total :
             /\ d.monthly_total[m] = AmountOf(led, {i \in S : MonthOf(i) = m})
             /\ DOMAIN d.category_summary[m] = {CatOf(i) : i \in {j \in S : MonthOf(j) = m}}
             /\ \A c \in DOMAIN d.category_summary[m] :
                   d.category_summary[m][c]
                      = AmountOf(led, {i \in S : MonthOf(i) = m /\ CatOf(i) = c})
       /\ d.monthly_avg = Trunc(AmountOf(led, S), 2 * Cardinality(DOMAIN d.monthly_total))

\* C18: the total, the monthly sums, the monthly average and the category
\* sums are taken from the valid rows only, and the count handed to the
\* caller is the number of rows excluded for failing a LineItem invariant
C18_InvalidRowsExcluded ==
    (last.op = "dashboard" /\ ledger.rows # <<>>) =>
        /\ loaded[1].removed_count = Cardinality(InvalidRows(ledger))
        /\ loaded[1].out = "Shown" => AggregatesFromValidRows(ledger, loaded[1])

\* the rows of an edited table that have an amount, a quantity and a name
Surviving(edited_df) ==
    LET Ok(e) == /\ e.amount.k \in {"num", "frac"}
                 /\ e.quantity.k \in {"num", "frac"}
                 /\ e.name.k = "str" /\ Strip(e.name.s) # ""
    IN SelectSeq(edited_df, Ok)

\* the stored row is the edited row e, saved by u
StoredFrom(row, e, u) ==
    /\ row[2] = e.name /\ row[4] = e.category /\ row[6] = Str(u)
    /\ row[5].k = "num" /\ row[5].n = e.amount.n
    /\ row[3].k = "num" /\ row[3].n = e.quantity.n

\* C17: a save in which no store call fails writes exactly the rows of the
\* edited table that have an amount, a quantity and a name, whatever the
\* other rows are; when there is no such row the ledger stays as it was and
\* the outcome is the warning that there is nothing valid to save
C17_InvalidRowsSkipped ==
    [][(last'.op = "save" /\ last'.f = "none") =>
          LET S == Surviving(last'.table)
              n == Len(ledger'.rows)
          IN IF S = <<>>
             THEN ledger' = ledger /\ ~last'.ok /\ last'.out \in {"Empty", "Invalid"}
             ELSE /\ last'.ok /\ last'.out = "Saved"
                  /\ n >= Len(S)
                  /\ \A j \in 1..Len(S) :
                        StoredFrom(ledger'.rows[n - Len(S) + j], S[j], last'.user)
                  /\ n - Len(S) \in {0, Len(ledger.rows)}]_vars

\* a batch with a row without an amount, saved after an earlier save: its
\* other row is stored
C17_Witness ==
    /\ last.op = "save" /\ last.table = <<NoAmount, Tea>> /\ last.out = "Saved"
    /\ Len(ledger.rows) = 2
    /\ StoredFrom(ledger.rows[2], Tea, last.user)

\* the rows below row 1 of the Users worksheet
Accounts(ws) == SubSeq(ws, 2, Len(ws))

\* no two accounts have usernames that are equal ignoring case
UniqueIgnoringCase(ws) ==
    \A i \in 2..Len(ws), j \in 2..Len(ws) :
        i # j => Lower(ws[i][1]) # Lower(ws[j][1])

\* C14: after every add_user call no two accounts have usernames equal
\* ignoring case, and a call whose username equals an existing one ignoring
\* case is refused and leaves the accounts as they were
C14_UniqueUsernames ==
    [][last'.op = "add_user" =>
          /\ UniqueIgnoringCase(users')
          /\ (\E i \in 2..Len(users) : Lower(users[i][1]) = Lower(last'.user))
                => (~last'.ok /\ Accounts(users') = Accounts(users))]_vars

\* the AI result is absent, not an object, without 'items' or with no item
NoItems(parsed_data) ==
    parsed_data.k # "dict" \/ ~parsed_data.has_items \/ parsed_data.items = <<>>

\* C19: the recognition step leaves one placeholder row (today, no name,
\* quantity 1, category Other, amount 0) when the AI result has no items, and
\* otherwise one row for each item, with the date of the document or today
C19_CandidateRows ==
    [][last'.op = "recognise" =>
          LET parsed_data == last'.table[1]
              parsed_df == session_state'["parsed_df"]
              doc_date == IF IsNull(parsed_data.invoice_date) THEN Str(today)
                          ELSE parsed_data.invoice_date
          IN IF NoItems(parsed_data)
             THEN parsed_df = Some(<<E(Str(today), Str(""), Num(1), Str("Other"), Num(0))>>)
             ELSE /\ parsed_df # None
                  /\ Len(parsed_df[1]) = Len(parsed_data.items)
                  /\ \A i \in 1..Len(parsed_df[1]) :
                        /\ parsed_df[1][i].date = doc_date
                        /\ parsed_df[1][i].name = ItemGet(parsed_data.items[i], "name")]_vars

\* the keys a logged-in session holds
SessionKeys ==
    {"logged_in", "username", "page", "parsed_df", "uploaded_file_name",
     "uploaded_file_content", "selected_user", "show_signup"}

\* C20: the logout button and a successful deletion of one's own account
\* leave the session without any key, the script run that follows renders
\* the login screen, and a page is rendered only in a session that has
\* logged_in true and a username
C20_SessionCleared ==
    [][/\ (last'.op = "logout" \/ (last'.op = "delete_self" /\ last'.ok))
             => /\ \A k \in SessionKeys : ~Has(session_state', k)
                /\ screen'.shows = "rerun"
       /\ ((last.op = "logout" \/ (last.op = "delete_self" /\ last.ok))
             /\ screen.shows = "rerun") => screen'.shows = "login"
       /\ screen'.shows \in Pages
             => /\ Has(session_state', "logged_in") /\ session_state'["logged_in"]
                /\ Has(session_state', "username")
                /\ session_state'["username"] \in {ADMIN_USERNAME, "bob", "Bob"}]_vars

\* the login screen after a logout or a deletion, in a session in which bob
\* had logged in, recognised an invoice and saved a row
C20_Witness ==
    /\ screen.shows = "login"
    /\ last.op = "login_screen"
    /\ session_state["logged_in"] = FALSE
    /\ ~Has(session_state, "username") /\ ~Has(session_state, "parsed_df")
    /\ ledger.rows # <<>> /\ OwnerOf(ledger.header, ledger.rows[Len(ledger.rows)]) = Str("bob")
    /\ Len(ledger.rows) = 2

\* the rows a save of session s writes, as the worksheet holds them
RowsOf(s) == [i \in 1..Len(run[s].rows) |-> Over(<<>>, run[s].rows[i])]

Count(rows, x) == Cardinality({i \in 1..Len(rows) : rows[i] = x})

\* C15: a save whose rows are written after delete_user has read the ledger
\* and before it clears it reports success, and once delete_user has written
\* the ledger back none of the rows of that save is in it
C15_SaveLostInPurge ==
    \A s \in Sessions :
        (run[s].op = "save" /\ run[s].landed = "clear") =>
            /\ run[s].out = "Saved"
            /\ run[OtherSession(s)].pc = "done" =>
                  /\ run[OtherSession(s)].out = "Deleted"
                  /\ \A i \in 1..Len(ledger.rows) : ledger.rows[i] \notin Range(RowsOf(s))

\* the administrator's save of two rows landed in that window, and the
\* deletion of bob has finished
C15_Witness ==
    \E s \in Sessions :
        /\ run[s].op = "save" /\ run[s].landed = "clear" /\ run[s].user = ADMIN_USERNAME
        /\ Len(run[s].rows) = 2
        /\ run[OtherSession(s)].pc = "done" /\ run[OtherSession(s)].out = "Deleted"
        /\ ledger.rows = <<Stored(Tea, ADMIN_USERNAME)>>

\* C16: when both sessions have saved and both report success, the ledger
\* holds every row of both saves, as whole rows
C16_ConcurrentSavesKept ==
    (\A s \in Sessions : run[s].op = "save" /\ run[s].pc = "done" /\ run[s].out = "Saved") =>
        \A s \in Sessions : \A i \in 1..Len(RowsOf(s)) :
            Count(ledger.rows, RowsOf(s)[i])
               >= Count(RowsOf(s), RowsOf(s)[i]) + Count(RowsOf(OtherSession(s)), RowsOf(s)[i])

\* the rows of the ledger whose owner cell is exactly u, in their order
OwnRowsOnly(led, u) ==
    LET o == ColIdx(led.header, "owner")
        Own(row) == row[o] = Str(u)
    IN [led EXCEPT !.rows = SelectSeq(led.rows, Own)]

\* the number the notice of line 339 announces, 0 when no notice is shown
Notice(d) == IF d.out \in {"NoMatch", "Shown"} /\ d.removed_count > 0 THEN d.removed_count ELSE 0

\* the aggregates of two renders are the same
SameAggregates(d, e) ==
    /\ d.total_expense = e.total_expense
    /\ d.monthly_total = e.monthly_total
    /\ d.monthly_avg = e.monthly_avg
    /\ d.category_summary = e.category_summary

\* C21: what the dashboard of u displays on the ledger is what it displays on
\* the ledger holding the rows of u alone: the same total, monthly sums,
\* monthly average and category sums, and the same notice and count
C21_IndependentOfOthers ==
    last.op = "dashboard" =>
        LET d == loaded[1]
            e == page_dashboard(load_data(OwnRowsOnly(ledger, d.user)), d.user, d.search_term)
        IN SameAggregates(d, e) /\ Notice(d) = Notice(e)

\* the usernames the Users worksheet holds, as stored
StoredNames(ws) == {UserGet(ws, i, "username") : i \in 1..UserCount(ws)}

\* C22: a successful login leaves in session_state.username a name the Users
\* worksheet holds, in its stored casing, which is the submitted name ignoring
\* case; the rows a save of the session writes carry that name as their
\* owner, and the dashboard of the session, read afresh, holds every one of
\* them
C22_StoredCasing ==
    /\ (last.op = "login" /\ last.ok) =>
          /\ session_state["username"] \in StoredNames(users)
          /\ Lower(session_state["username"]) = Lower(last.user)
    /\ (last.op = "save" /\ last.ok) =>
          /\ last.user = session_state["username"]
          /\ \A i \in WrittenBy(last, ledger) :
                OwnerOf(ledger.header, ledger.rows[i]) = Str(session_state["username"])
          /\ Len(page_dashboard(load_data(ledger), session_state["username"], "").df.rows)
                >= Cardinality(WrittenBy(last, ledger))
    /\ last.op = "dashboard" => loaded[1].user = session_state["username"]

\* the records of the Users worksheet whose username is ADMIN_USERNAME
\* ignoring case, as get_all_records reads them
AdminAccounts(ws) ==
    LET recs == UserRecords(get_users_worksheet(ws)) IN
    {i \in 1..Len(recs) : Lower(str(recs[i].username)) = Lower(ADMIN_USERNAME)}

\* C23: the Users worksheet holds the administrator's account, once, after
\* every registration and deletion; add_user refuses a name that is
\* ADMIN_USERNAME ignoring case, and neither the administrator's list nor the
\* self-deletion deletes such a name
C23_AdminAccountKept ==
    /\ Cardinality(AdminAccounts(users)) = 1
    /\ (last.op = "add_user" /\ Lower(last.user) = Lower(ADMIN_USERNAME))
          => (~last.ok /\ last.out = "Reserved")
    /\ IsDelete(last) => Lower(last.user) # Lower(ADMIN_USERNAME)

====
